---- MODULE Spec2Model ----
(***************************************************************************)
(* Model of checkmate: Job::run / Task::into_runners / Script::try_into_   *)
(* runner (src/src/lib.rs) and the two supervisors of CommandRunner        *)
(* (src/src/command.rs): the local polling thread of from_command and the  *)
(* runtime thread with its two drain tasks of from_command_ssh.            *)
(*                                                                         *)
(* Byte buffers are kept as run-length segments <<kind, n>>:               *)
(*   "d"  n bytes of the process's stream, in stream order                 *)
(*   "z"  n zero bytes that come from a read buffer, not from the stream   *)
(*   "m"  n stream bytes written over existing contents of the buffer      *)
(* so a buffer equals the first n bytes of the stream iff it is empty      *)
(* (n = 0) or the single segment <<"d", n>>.                               *)
(***************************************************************************)
EXTENDS Integers, Sequences, FiniteSets, TLC

\* ---------------------------------------------------------------- bounds
MaxTasks == 2
MaxScripts == 2
PipeReads == 2
MaxNameLen == 2
MaxChain == 3
MaxKeys == 6

\* ------------------------------------------------------ program constants
ReadSize == 1024

\* usize::MAX, as the largest integer the model checker holds; it is only
\* ever compared with selections of at most MaxKeys
UsizeMax == 2147483647

PipeCap == PipeReads * ReadSize

Min(a, b) == IF a < b THEN a ELSE b

\* ------------------------------------------------------------ byte buffers
RECURSIVE LenB(_)
LenB(buf) == IF buf = <<>> THEN 0 ELSE buf[1][2] + LenB(Tail(buf))

\* extend_from_slice as it would be if the Vec were replaced by the new bytes
ExtendFromSliceReplacing(buf, k, n) ==
    IF n = 0 THEN buf ELSE <<<<k, n>>>>

\* Vec::extend_from_slice with n bytes of kind k
ExtendFromSlice(buf, k, n) ==
    IF n = 0 THEN buf
    ELSE IF buf # <<>> /\ buf[Len(buf)][1] = k
         THEN [buf EXCEPT ![Len(buf)] = <<k, @[2] + n>>]
         ELSE Append(buf, <<k, n>>)

RECURSIVE DropBytes(_, _)
DropBytes(buf, n) ==
    IF n = 0 \/ buf = <<>> THEN buf
    ELSE IF buf[1][2] <= n THEN DropBytes(Tail(buf), n - buf[1][2])
         ELSE <<<<buf[1][1], buf[1][2] - n>>>> \o Tail(buf)

\* a read of n stream bytes into the front of an existing slice
ReadInto(buf, n) == IF n = 0 THEN buf ELSE <<<<"m", n>>>> \o DropBytes(buf, n)

\* the first n bytes of a stream, as a buffer
StreamPrefix(n) == IF n = 0 THEN <<>> ELSE <<<<"d", n>>>>

\* ------------------------------------------------------------------- jobs
Destinations == {"Local", "Remote"}

SeqsUpTo(S, n) == UNION {[1..k -> S] : k \in 0..n}

\* Task::Script(s) | Task::Serial(ss)
Tasks(S) ==
    {[kind |-> "Script", scripts |-> <<s>>] : s \in S}
    \cup {[kind |-> "Serial", scripts |-> ss] : ss \in SeqsUpTo(S, MaxScripts)}

RECURSIVE NumScripts(_)
NumScripts(tasks) ==
    IF tasks = <<>> THEN 0 ELSE Len(tasks[1].scripts) + NumScripts(Tail(tasks))

Jobs(S) == {ts \in SeqsUpTo(Tasks(S), MaxTasks) : NumScripts(ts) <= MaxScripts}

ExitCodes == {0, 1}

\* scripts of the jobs of Spec: one short line of output, nothing on stderr
JobScripts == {[dest |-> d, outLen |-> 1, errLen |-> 0, code |-> 1] : d \in Destinations}

\* scripts of the single-handle specification: outputs around the read size
\* and beyond the pipe capacity
OutLens == {0, 1, ReadSize, ReadSize + 1, 2 * ReadSize + 1, PipeCap + ReadSize + 1}
ErrLens == {0, 1, PipeCap + 1}
HandleScripts ==
    {[dest |-> d, outLen |-> o, errLen |-> e, code |-> c] :
        d \in Destinations, o \in OutLens, e \in ErrLens, c \in ExitCodes}

Handles == 1..MaxScripts

\* ------------------------------------------- names and paths (lib.rs)
\* strings are sequences of characters
NameChars == {"a", "."}
Names == SeqsUpTo(NameChars, MaxNameLen)

\* scripts and tasks as far as Task::name and write_script read them
\* Environment::None | Environment::Current
Environments == {"None", "Current"}

\* Shell::Bash | Shell::Custom(x)
Shells == {[kind |-> "Bash", path |-> "bash"], [kind |-> "Custom", path |-> "sh"]}

NamedScripts ==
    {[name |-> n, dest |-> d, environment |-> e, shell |-> sh] :
        n \in Names, d \in Destinations, e \in Environments, sh \in Shells}

\* Script::default() but for its name
DefaultScript(n) ==
    [name |-> n, dest |-> "Local", environment |-> "None",
     shell |-> [kind |-> "Bash", path |-> "bash"]]
NameTasks ==
    {[kind |-> "Script", scripts |-> <<s>>] : s \in {DefaultScript(n) : n \in Names}}
    \cup {[kind |-> "Serial", scripts |-> ss] :
            ss \in SeqsUpTo({DefaultScript(n) : n \in Names}, MaxChain)}

\* the separator of Task::name
Sep == <<" ", "=", ">", " ">>

\* [String]::join as it would be if the separator followed every element
RECURSIVE JoinTrailing(_, _)
JoinTrailing(ss, sep) ==
    IF ss = <<>> THEN <<>> ELSE ss[1] \o sep \o JoinTrailing(Tail(ss), sep)

\* [String]::join(sep): the separator goes between consecutive elements
RECURSIVE Join(_, _)
Join(ss, sep) ==
    IF ss = <<>> THEN <<>>
    ELSE IF Len(ss) = 1 THEN ss[1]
    ELSE ss[1] \o sep \o Join(Tail(ss), sep)

\* Task::name
TaskName(t) ==
    IF t.kind = "Script" THEN t.scripts[1].name
    ELSE Join([i \in 1..Len(t.scripts) |-> t.scripts[i].name], Sep)

\* the index of the last c in s, 0 if there is none
LastIndexOf(s, c) ==
    LET I == {i \in 1..Len(s) : s[i] = c}
    IN IF I = {} THEN 0 ELSE CHOOSE i \in I : \A j \in I : j <= i

\* PathBuf::push: an absolute component replaces the path, otherwise it is
\* appended behind a separator unless the path is empty or ends in one
Push(path, comp) ==
    IF comp # <<>> /\ comp[1] = "/" THEN comp
    ELSE IF path = <<>> \/ path[Len(path)] = "/" THEN path \o comp
    ELSE path \o <<"/">> \o comp

\* Path::file_name: the last component
FileName(path) == SubSeq(path, LastIndexOf(path, "/") + 1, Len(path))

\* Path::file_stem: the file name up to its last '.', the whole file name if
\* it has none, starts with its only '.', or is ".."
FileStem(path) ==
    LET f == FileName(path)
        dot == LastIndexOf(f, ".")
    IN IF dot <= 1 \/ f = <<".", ".">> THEN f ELSE SubSeq(f, 1, dot - 1)

\* PathBuf::set_extension: the path is cut behind the file stem, then '.' and
\* the extension are appended
SetExtension(path, ext) ==
    LET cut == SubSeq(path, 1, Len(path) - Len(FileName(path)) + Len(FileStem(path)))
    IN IF ext = <<>> THEN cut ELSE cut \o <<".">> \o ext

Checkmate == <<"c", "h", "e", "c", "k", "m", "a", "t", "e", "_">>
Sh == <<"s", "h">>
Tmp == <<"/", "t", "m", "p">>

\* std::env::temp_dir(): TMPDIR as it is set, with or without a trailing '/'
TempDirs == {Tmp, Tmp \o <<"/">>}

\* the path write_script creates its file at and returns
WriteScriptPath(s, tmp) == SetExtension(Push(tmp, Checkmate \o s.name), Sh)

\* the remote path write_remote_script returns for the local path script
RemotePath(script) == Push(Push(<<>>, Tmp), FileName(script))

\* the variables a launcher's environment may hold (values left out)
EnvVars == {"PATH", "HOME"}
LauncherEnvs == SUBSET EnvVars

\* Shell::path
ShellPath(shell) == shell.path

\* Environment::with_shell: both arms return the shell's path and nothing else
WithShell(environment, shell) ==
    IF environment = "None" THEN ShellPath(shell) ELSE ShellPath(shell)

\* Command::new(program): no env_clear, no env is ever called on it
CommandNew(program) == [program |-> program, env_clear |-> FALSE]

\* Command::new(self.environment.with_shell(&self.shell)?).arg(script)
TryIntoRunnerCommand(s) == CommandNew(WithShell(s.environment, s.shell))

\* the environment of the child that Command::spawn starts: the parent's,
\* or none after env_clear
SpawnEnv(cmd, env) == IF cmd.env_clear THEN {} ELSE env

\* ------------------------------------------------------------------ state
VARIABLES
    job,        \* Job.tasks
    runPc,      \* Job::run: "resolve" | "scp_wait" | "returned" | "panicked"
    panic,      \* the expect/unwrap that ended Job::run, "" if none
    curTask,    \* index of the task being resolved by the map closure
    curScript,  \* index of the script being resolved inside into_runners
    curRunners, \* the runners collected so far for curTask
    threads,    \* JobRunner.threads collected so far
    scp,        \* the scp subprocess: "none" | "running" | "success" | "failure"
    nextHandle, \* number of CommandRunners created so far
    hkind,      \* per handle: "none" | "local" | "remote"
    hscript,    \* per handle: <<task index, script index>>
    stdout, stderr, status, complete,   \* the four cells of CommandRunner
    bgPc,       \* position of the handle's background thread
    proc,       \* the child process and its two pipes
    reaped,     \* std's Child has cached the exit status
    drainOut, drainErr, \* the two tokio drain tasks of a remote handle
    fnTask,     \* the Task that name() is called on
    fnScript,   \* the Script that write_script / write_remote_script is called on
    fnTmp,      \* what std::env::temp_dir() returns
    fnEnv,      \* the environment variables of the launcher
    fnProcEnv,  \* the environment variables of the process spawned for fnScript
    fnName,     \* the String returned by Task::name
    fnLocal,    \* the path of the file write_script created and returned
    fnRemote,   \* the path returned by write_remote_script
    selected,   \* State.job_table.selected(), always Some
    draw_mode,  \* State.draw_mode: "Job" | "Task"
    uiPc,       \* the event loop of main: "running" | "panicked"
    keys,       \* number of key events handled so far
    overflow_checks \* the build panics on integer overflow (debug) or wraps (release)

jobVars == <<job, runPc, panic, curTask, curScript, curRunners, threads, scp, nextHandle>>
cellVars == <<stdout, stderr, status, complete>>
bgVars == <<bgPc, reaped, drainOut, drainErr>>
handleVars == <<hkind, hscript, cellVars, bgVars, proc>>
fnVars == <<fnTask, fnScript, fnTmp, fnEnv, fnProcEnv, fnName, fnLocal, fnRemote>>
uiVars == <<selected, draw_mode, uiPc, keys, overflow_checks>>
vars == <<jobVars, handleVars, fnVars, uiVars>>

NoStatus == [some |-> FALSE, code |-> 0]
SomeStatus(c) == [some |-> TRUE, code |-> c]

NoProc == [st |-> "none", outLeft |-> 0, errLeft |-> 0, pipeOut |-> 0, pipeErr |-> 0, code |-> 0]
Spawned(s) == [st |-> "running", outLeft |-> s.outLen, errLeft |-> s.errLen,
               pipeOut |-> 0, pipeErr |-> 0, code |-> s.code]

NoDrain == [st |-> "none", len |-> 0]

NoString == [some |-> FALSE, v |-> <<>>]
NoEnv == [some |-> FALSE, v |-> {}]
SomeEnv(v) == [some |-> TRUE, v |-> v]
SomeString(v) == [some |-> TRUE, v |-> v]

\* neither Task::name nor write_script has been called
NoCalls ==
    /\ fnTask = [kind |-> "Serial", scripts |-> <<>>]
    /\ fnScript = DefaultScript(<<>>)
    /\ fnTmp = Tmp
    /\ fnEnv = {}
    /\ fnProcEnv = NoEnv
    /\ fnName = NoString
    /\ fnLocal = NoString
    /\ fnRemote = NoString

InitRun(J) ==
    /\ job \in J
    /\ runPc = "resolve"
    /\ panic = ""
    /\ curTask = 1
    /\ curScript = 1
    /\ curRunners = <<>>
    /\ threads = <<>>
    /\ scp = "none"
    /\ nextHandle = 0
    /\ hkind = [h \in Handles |-> "none"]
    /\ hscript = [h \in Handles |-> <<0, 0>>]
    /\ stdout = [h \in Handles |-> <<>>]
    /\ stderr = [h \in Handles |-> <<>>]
    /\ status = [h \in Handles |-> NoStatus]
    /\ complete = [h \in Handles |-> "OkFalse"]
    /\ bgPc = [h \in Handles |-> "none"]
    /\ proc = [h \in Handles |-> NoProc]
    /\ reaped = [h \in Handles |-> FALSE]
    /\ drainOut = [h \in Handles |-> NoDrain]
    /\ drainErr = [h \in Handles |-> NoDrain]

\* State::default(): row 0 is selected, the job table is shown
StateDefault ==
    /\ selected = 0
    /\ draw_mode = "Job"
    /\ uiPc = "running"
    /\ keys = 0

InitWith(J) == InitRun(J) /\ NoCalls /\ StateDefault /\ overflow_checks = FALSE

Init == InitWith(Jobs(JobScripts))

InitHandle == InitWith({<<t>> : t \in {x \in Tasks(HandleScripts) : x.kind = "Script"}})

\* ------------------------------------------------------ Job::run (lib.rs)
Resolving == runPc = "resolve" /\ curTask <= Len(job) /\ curScript <= Len(job[curTask].scripts)

CurScript == job[curTask].scripts[curScript]

\* an expect() of the calling thread fails: Job::run unwinds, nothing is returned
Panic(msg) ==
    /\ runPc' = "panicked"
    /\ panic' = msg
    /\ UNCHANGED <<uiVars, fnVars, job, curTask, curScript, curRunners, threads, nextHandle, handleVars>>

\* CommandRunner::from_command after a successful cmd.spawn(): four fresh cells,
\* the child with its two pipes, and the polling thread at the top of its loop
FromCommand(h, s) ==
    /\ hkind' = [hkind EXCEPT ![h] = "local"]
    /\ stdout' = [stdout EXCEPT ![h] = <<>>]
    /\ stderr' = [stderr EXCEPT ![h] = <<>>]
    /\ status' = [status EXCEPT ![h] = NoStatus]
    /\ complete' = [complete EXCEPT ![h] = "OkFalse"]
    /\ proc' = [proc EXCEPT ![h] = Spawned(s)]
    /\ bgPc' = [bgPc EXCEPT ![h] = "try_wait"]
    /\ UNCHANGED <<reaped, drainOut, drainErr>>

\* CommandRunner::from_command_ssh: four fresh cells and the runtime thread,
\* which has everything still to do (connect, spawn, drain, wait)
FromCommandSsh(h) ==
    /\ hkind' = [hkind EXCEPT ![h] = "remote"]
    /\ stdout' = [stdout EXCEPT ![h] = <<>>]
    /\ stderr' = [stderr EXCEPT ![h] = <<>>]
    /\ status' = [status EXCEPT ![h] = NoStatus]
    /\ complete' = [complete EXCEPT ![h] = "OkFalse"]
    /\ bgPc' = [bgPc EXCEPT ![h] = "connect"]
    /\ UNCHANGED <<proc, reaped, drainOut, drainErr>>

\* the runner is pushed onto the Vec that into_runners collects
Collect(h) ==
    /\ nextHandle' = h
    /\ hscript' = [hscript EXCEPT ![h] = <<curTask, curScript>>]
    /\ curRunners' = Append(curRunners, h)
    /\ curScript' = curScript + 1
    /\ UNCHANGED <<uiVars, fnVars, job, panic, curTask, threads>>

\* what can go wrong in write_script: File::create (expect) and write_all (?)
WriteScriptOutcomes == {"ok", "Failed to write script", "Failed to make runner"}

\* try_into_runner, Destination::Local: write_script, then from_command
TryIntoRunnerLocal ==
    /\ Resolving
    /\ CurScript.dest = "Local"
    /\ \E w \in WriteScriptOutcomes, spawn \in {"ok", "Failed to spawn command"} :
         IF w # "ok" THEN Panic(w) /\ UNCHANGED scp
         ELSE IF spawn # "ok" THEN Panic(spawn) /\ UNCHANGED scp
         ELSE /\ FromCommand(nextHandle + 1, CurScript)
              /\ Collect(nextHandle + 1)
              /\ UNCHANGED <<runPc, scp>>

\* write_remote_script up to Command::status(): write_script, then scp is
\* spawned and the calling thread waits for it
WriteRemoteScript ==
    /\ Resolving
    /\ CurScript.dest = "Remote"
    /\ \E w \in WriteScriptOutcomes, spawn \in {"ok", "Failed to make runner"} :
         IF w # "ok" THEN Panic(w) /\ UNCHANGED scp
         ELSE IF spawn # "ok" THEN Panic(spawn) /\ UNCHANGED scp
         ELSE /\ runPc' = "scp_wait"
              /\ scp' = "running"
              /\ UNCHANGED <<uiVars, fnVars, job, panic, curTask, curScript, curRunners, threads,
                             nextHandle, handleVars>>

\* the scp subprocess ends, with or without success
ScpExit ==
    /\ scp = "running"
    /\ \E r \in {"success", "failure"} : scp' = r
    /\ UNCHANGED <<uiVars, fnVars, job, runPc, panic, curTask, curScript, curRunners, threads,
                   nextHandle, handleVars>>

\* Command::status() returns: on success the remote path is built and
\* from_command_ssh makes the runner, otherwise Err(..) reaches the expect
TryIntoRunnerRemote ==
    /\ runPc = "scp_wait"
    /\ scp \in {"success", "failure"}
    /\ scp' = "none"
    /\ IF scp = "failure" THEN Panic("Failed to make runner")
       ELSE /\ FromCommandSsh(nextHandle + 1)
            /\ Collect(nextHandle + 1)
            /\ runPc' = "resolve"

\* IntoRunnersDone as it would be if each task were joined before the next
\* one is mapped: the JobThread is made once all its runners are terminal
IntoRunnersDoneJoined ==
    /\ runPc = "resolve"
    /\ curTask <= Len(job)
    /\ curScript > Len(job[curTask].scripts)
    /\ \A i \in 1..Len(curRunners) : complete[curRunners[i]] # "OkFalse"
    /\ threads' = Append(threads, [task |-> curTask, runners |-> curRunners])
    /\ curTask' = curTask + 1
    /\ curScript' = 1
    /\ curRunners' = <<>>
    /\ UNCHANGED <<uiVars, fnVars, job, runPc, panic, scp, nextHandle, handleVars>>

\* IntoRunnersDone as it would be if a chain were cut short once one of its
\* runners has completed with a non-zero exit status
IntoRunnersDoneShortCircuit ==
    /\ runPc = "resolve"
    /\ curTask <= Len(job)
    /\ \/ curScript > Len(job[curTask].scripts)
       \/ \E i \in 1..Len(curRunners) :
            /\ complete[curRunners[i]] = "OkTrue"
            /\ status[curRunners[i]].some /\ status[curRunners[i]].code # 0
    /\ threads' = Append(threads, [task |-> curTask, runners |-> curRunners])
    /\ curTask' = curTask + 1
    /\ curScript' = 1
    /\ curRunners' = <<>>
    /\ UNCHANGED <<uiVars, fnVars, job, runPc, panic, scp, nextHandle, handleVars>>

\* IntoRunnersDone as it would be if a task without runners gave no JobThread
IntoRunnersDoneSkipEmpty ==
    /\ runPc = "resolve"
    /\ curTask <= Len(job)
    /\ curScript > Len(job[curTask].scripts)
    /\ threads' = IF curRunners = <<>> THEN threads
                  ELSE Append(threads, [task |-> curTask, runners |-> curRunners])
    /\ curTask' = curTask + 1
    /\ curScript' = 1
    /\ curRunners' = <<>>
    /\ UNCHANGED <<uiVars, fnVars, job, runPc, panic, scp, nextHandle, handleVars>>

\* into_runners has collected every runner of the task: the JobThread is made
IntoRunnersDone ==
    /\ runPc = "resolve"
    /\ curTask <= Len(job)
    /\ curScript > Len(job[curTask].scripts)
    /\ threads' = Append(threads, [task |-> curTask, runners |-> curRunners])
    /\ curTask' = curTask + 1
    /\ curScript' = 1
    /\ curRunners' = <<>>
    /\ UNCHANGED <<uiVars, fnVars, job, runPc, panic, scp, nextHandle, handleVars>>

\* every task is mapped: Job::run returns the JobRunner
RunReturn ==
    /\ runPc = "resolve"
    /\ curTask > Len(job)
    /\ runPc' = "returned"
    /\ UNCHANGED <<uiVars, fnVars, job, panic, curTask, curScript, curRunners, threads, scp,
                   nextHandle, handleVars>>

JobRun ==
    \/ TryIntoRunnerLocal
    \/ WriteRemoteScript
    \/ TryIntoRunnerRemote
    \/ IntoRunnersDone
    \/ RunReturn

\* ------------------------------------------------- the child and its pipes
\* the program writes what fits into the pipe of one of its two streams
ProcWrite(h) ==
    /\ proc[h].st = "running"
    /\ \/ /\ proc[h].outLeft > 0
          /\ proc[h].pipeOut < PipeCap
          /\ LET n == Min(proc[h].outLeft, PipeCap - proc[h].pipeOut)
             IN proc' = [proc EXCEPT ![h].outLeft = @ - n, ![h].pipeOut = @ + n]
       \/ /\ proc[h].errLeft > 0
          /\ proc[h].pipeErr < PipeCap
          /\ LET n == Min(proc[h].errLeft, PipeCap - proc[h].pipeErr)
             IN proc' = [proc EXCEPT ![h].errLeft = @ - n, ![h].pipeErr = @ + n]
    /\ UNCHANGED <<uiVars, fnVars, jobVars, hkind, hscript, cellVars, bgVars>>

\* the program has written all its output and exits with its code
ProcExit(h) ==
    /\ proc[h].st = "running"
    /\ proc[h].outLeft = 0
    /\ proc[h].errLeft = 0
    /\ proc' = [proc EXCEPT ![h].st = "exited"]
    /\ UNCHANGED <<uiVars, fnVars, jobVars, hkind, hscript, cellVars, bgVars>>

\* a read(2) of a pipe into a buffer of cap bytes returns at once when cap = 0,
\* and otherwise when bytes are queued or the write end is closed
ReadReady(h, queued, cap) == cap = 0 \/ queued > 0 \/ proc[h].st = "exited"

\* ------------------------------- from_command: the polling thread (command.rs)
\* child.try_wait(): the cached status once the child was reaped, else what
\* waitpid reports, or its error
TryWait(h) ==
    IF reaped[h] THEN {"Some"}
    ELSE (IF proc[h].st = "exited" THEN {"Some"} ELSE {"None"}) \cup {"Err"}

LocalTryWait(h) ==
    /\ hkind[h] = "local"
    /\ bgPc[h] = "try_wait"
    /\ \E r \in TryWait(h) :
         /\ reaped' = [reaped EXCEPT ![h] = @ \/ r = "Some"]
         /\ bgPc' = [bgPc EXCEPT ![h] =
                CASE r = "Some" -> "some_out" [] r = "None" -> "none_out" [] OTHER -> "err_complete"]
    /\ UNCHANGED <<uiVars, fnVars, jobVars, hkind, hscript, cellVars, proc, drainOut, drainErr>>

\* let len = stdout.read(&mut buffer); stdout_bg.lock().extend_from_slice(&buffer[0..len])
LocalReadStdout(h) ==
    /\ hkind[h] = "local"
    /\ bgPc[h] \in {"some_out", "none_out"}
    /\ ReadReady(h, proc[h].pipeOut, ReadSize)
    /\ LET len == Min(ReadSize, proc[h].pipeOut)
       IN /\ proc' = [proc EXCEPT ![h].pipeOut = @ - len]
          /\ stdout' = [stdout EXCEPT ![h] = ExtendFromSlice(@, "d", len)]
    /\ bgPc' = [bgPc EXCEPT ![h] = IF @ = "some_out" THEN "some_err" ELSE "none_err"]
    /\ UNCHANGED <<uiVars, fnVars, jobVars, hkind, hscript, stderr, status, complete, reaped, drainOut, drainErr>>

\* stderr_bg.lock() as the argument of stderr.read(..): the guard lives until
\* the end of the let statement, so the mutex is held across the read
LocalLockStderr(h) ==
    /\ hkind[h] = "local"
    /\ bgPc[h] \in {"some_err", "none_err"}
    /\ bgPc' = [bgPc EXCEPT ![h] = IF @ = "some_err" THEN "some_err_locked" ELSE "none_err_locked"]
    /\ UNCHANGED <<uiVars, fnVars, jobVars, hkind, hscript, cellVars, proc, reaped, drainOut, drainErr>>

\* a read buffer of the size of the local's [0; 1024], not of the Vec
StderrReadCapOfBuffer(h) == ReadSize

\* &mut *stderr_bg.lock(): the read buffer is the Vec behind the mutex, as
\* long as the Vec is now
StderrReadCap(h) == LenB(stderr[h])

\* let len = stderr.read(&mut *stderr_bg.lock()), the guard is dropped;
\* stderr_bg.lock().extend_from_slice(&buffer[0..len]): len bytes of the zeroed buffer
LocalReadStderr(h) ==
    /\ hkind[h] = "local"
    /\ bgPc[h] \in {"some_err_locked", "none_err_locked"}
    /\ ReadReady(h, proc[h].pipeErr, StderrReadCap(h))
    /\ LET len == Min(StderrReadCap(h), proc[h].pipeErr)
       IN /\ proc' = [proc EXCEPT ![h].pipeErr = @ - len]
          /\ stderr' = [stderr EXCEPT ![h] = ExtendFromSlice(ReadInto(@, len), "z", len)]
    /\ bgPc' = [bgPc EXCEPT ![h] = IF @ = "some_err_locked" THEN "some_status" ELSE "try_wait"]
    /\ UNCHANGED <<uiVars, fnVars, jobVars, hkind, hscript, stdout, status, complete, reaped, drainOut, drainErr>>

\* LocalStoreStatus as it would be if the status were not written before
\* completion is published
LocalStoreStatusSkipped(h) ==
    /\ hkind[h] = "local"
    /\ bgPc[h] = "some_status"
    /\ bgPc' = [bgPc EXCEPT ![h] = "some_complete"]
    /\ UNCHANGED <<uiVars, fnVars, jobVars, hkind, hscript, cellVars, proc, reaped, drainOut, drainErr>>

\* *status_bg.lock() = Some(status)
LocalStoreStatus(h) ==
    /\ hkind[h] = "local"
    /\ bgPc[h] = "some_status"
    /\ status' = [status EXCEPT ![h] = SomeStatus(proc[h].code)]
    /\ bgPc' = [bgPc EXCEPT ![h] = "some_complete"]
    /\ UNCHANGED <<uiVars, fnVars, jobVars, hkind, hscript, stdout, stderr, complete, proc, reaped, drainOut, drainErr>>

\* LocalStoreComplete as it would be if a non-zero exit were treated as a
\* failure of the handle
LocalStoreCompleteFailsNonZero(h) ==
    /\ hkind[h] = "local"
    /\ bgPc[h] = "some_complete"
    /\ complete' = [complete EXCEPT ![h] = IF proc[h].code = 0 THEN "OkTrue" ELSE "Err"]
    /\ bgPc' = [bgPc EXCEPT ![h] = "try_wait"]
    /\ UNCHANGED <<uiVars, fnVars, jobVars, hkind, hscript, stdout, stderr, status, proc, reaped, drainOut, drainErr>>

\* *complete_bg.lock() = Ok(true); the loop sleeps and goes round again
LocalStoreComplete(h) ==
    /\ hkind[h] = "local"
    /\ bgPc[h] = "some_complete"
    /\ complete' = [complete EXCEPT ![h] = "OkTrue"]
    /\ bgPc' = [bgPc EXCEPT ![h] = "try_wait"]
    /\ UNCHANGED <<uiVars, fnVars, jobVars, hkind, hscript, stdout, stderr, status, proc, reaped, drainOut, drainErr>>

\* *complete_bg.lock() = Err(..); the loop sleeps and goes round again
LocalStoreErr(h) ==
    /\ hkind[h] = "local"
    /\ bgPc[h] = "err_complete"
    /\ complete' = [complete EXCEPT ![h] = "Err"]
    /\ bgPc' = [bgPc EXCEPT ![h] = "try_wait"]
    /\ UNCHANGED <<uiVars, fnVars, jobVars, hkind, hscript, stdout, stderr, status, proc, reaped, drainOut, drainErr>>

LocalStep(h) ==
    \/ LocalTryWait(h)
    \/ LocalReadStdout(h)
    \/ LocalLockStderr(h)
    \/ LocalReadStderr(h)
    \/ LocalStoreStatus(h)
    \/ LocalStoreComplete(h)
    \/ LocalStoreErr(h)

\* ------------------------- from_command_ssh: the runtime thread (command.rs)
ScriptOf(h) == job[hscript[h][1]].scripts[hscript[h][2]]

\* session.connect_mux(remote).await.expect(..): a failed connect panics the thread
RemoteConnect(h) ==
    /\ hkind[h] = "remote"
    /\ bgPc[h] = "connect"
    /\ \E ok \in BOOLEAN : bgPc' = [bgPc EXCEPT ![h] = IF ok THEN "spawn" ELSE "panicked"]
    /\ UNCHANGED <<uiVars, fnVars, jobVars, hkind, hscript, cellVars, proc, reaped, drainOut, drainErr>>

\* raw_command(..).spawn().await.expect(..), then the two tokio::spawn of the
\* drain tasks; the thread goes on to child.wait()
RemoteSpawn(h) ==
    /\ hkind[h] = "remote"
    /\ bgPc[h] = "spawn"
    /\ \E ok \in BOOLEAN :
         IF ok
         THEN /\ proc' = [proc EXCEPT ![h] = Spawned(ScriptOf(h))]
              /\ drainOut' = [drainOut EXCEPT ![h] = [st |-> "reading", len |-> 0]]
              /\ drainErr' = [drainErr EXCEPT ![h] = [st |-> "reading", len |-> 0]]
              /\ bgPc' = [bgPc EXCEPT ![h] = "wait"]
         ELSE /\ bgPc' = [bgPc EXCEPT ![h] = "panicked"]
              /\ UNCHANGED <<proc, drainOut, drainErr>>
    /\ UNCHANGED <<uiVars, fnVars, jobVars, hkind, hscript, cellVars, reaped>>

\* stdout.read(&mut buffer[..]).await in stdout_task: the one read it makes
StdoutTaskRead(h) ==
    /\ drainOut[h].st = "reading"
    /\ ReadReady(h, proc[h].pipeOut, ReadSize)
    /\ LET len == Min(ReadSize, proc[h].pipeOut)
       IN /\ proc' = [proc EXCEPT ![h].pipeOut = @ - len]
          /\ drainOut' = [drainOut EXCEPT ![h] = [st |-> "got", len |-> len]]
    /\ UNCHANGED <<uiVars, fnVars, jobVars, hkind, hscript, cellVars, bgPc, reaped, drainErr>>

\* stdout_bg.lock().extend_from_slice(&buffer): the whole read buffer
StdoutTaskExtend(h) ==
    /\ drainOut[h].st = "got"
    /\ stdout' = [stdout EXCEPT ![h] =
            ExtendFromSlice(ExtendFromSlice(@, "d", drainOut[h].len), "z", ReadSize - drainOut[h].len)]
    /\ drainOut' = [drainOut EXCEPT ![h] = [st |-> "done", len |-> 0]]
    /\ UNCHANGED <<uiVars, fnVars, jobVars, hkind, hscript, stderr, status, complete, bgPc, reaped, proc, drainErr>>

\* stderr.read(&mut buffer[..]).await in stderr_task
StderrTaskRead(h) ==
    /\ drainErr[h].st = "reading"
    /\ ReadReady(h, proc[h].pipeErr, ReadSize)
    /\ LET len == Min(ReadSize, proc[h].pipeErr)
       IN /\ proc' = [proc EXCEPT ![h].pipeErr = @ - len]
          /\ drainErr' = [drainErr EXCEPT ![h] = [st |-> "got", len |-> len]]
    /\ UNCHANGED <<uiVars, fnVars, jobVars, hkind, hscript, cellVars, bgPc, reaped, drainOut>>

\* stderr_bg.lock().extend_from_slice(&buffer)
StderrTaskExtend(h) ==
    /\ drainErr[h].st = "got"
    /\ stderr' = [stderr EXCEPT ![h] =
            ExtendFromSlice(ExtendFromSlice(@, "d", drainErr[h].len), "z", ReadSize - drainErr[h].len)]
    /\ drainErr' = [drainErr EXCEPT ![h] = [st |-> "done", len |-> 0]]
    /\ UNCHANGED <<uiVars, fnVars, jobVars, hkind, hscript, stdout, status, complete, bgPc, reaped, proc, drainOut>>

\* child.wait().await: Ok(status) once the process has exited, or Err
RemoteWait(h) ==
    /\ hkind[h] = "remote"
    /\ bgPc[h] = "wait"
    /\ \/ /\ proc[h].st = "exited"
          /\ bgPc' = [bgPc EXCEPT ![h] = "ok_status"]
       \/ bgPc' = [bgPc EXCEPT ![h] = "err_complete"]
    /\ UNCHANGED <<uiVars, fnVars, jobVars, hkind, hscript, cellVars, proc, reaped, drainOut, drainErr>>

\* *status_bg.lock() = Some(status)
RemoteStoreStatus(h) ==
    /\ hkind[h] = "remote"
    /\ bgPc[h] = "ok_status"
    /\ status' = [status EXCEPT ![h] = SomeStatus(proc[h].code)]
    /\ bgPc' = [bgPc EXCEPT ![h] = "ok_complete"]
    /\ UNCHANGED <<uiVars, fnVars, jobVars, hkind, hscript, stdout, stderr, complete, proc, reaped, drainOut, drainErr>>

\* *complete_bg.lock() = Ok(true)
RemoteStoreComplete(h) ==
    /\ hkind[h] = "remote"
    /\ bgPc[h] = "ok_complete"
    /\ complete' = [complete EXCEPT ![h] = "OkTrue"]
    /\ bgPc' = [bgPc EXCEPT ![h] = "abort"]
    /\ UNCHANGED <<uiVars, fnVars, jobVars, hkind, hscript, stdout, stderr, status, proc, reaped, drainOut, drainErr>>

\* JoinHandle::abort: a task suspended in its read is cancelled; a task that
\* is past its read has no await left and runs to its end
Abort(d) == IF d.st = "reading" THEN [st |-> "aborted", len |-> 0] ELSE d

\* stdout_task.abort(); stderr_task.abort()
RemoteAbort(h) ==
    /\ hkind[h] = "remote"
    /\ bgPc[h] = "abort"
    /\ drainOut' = [drainOut EXCEPT ![h] = Abort(@)]
    /\ drainErr' = [drainErr EXCEPT ![h] = Abort(@)]
    /\ bgPc' = [bgPc EXCEPT ![h] = "join"]
    /\ UNCHANGED <<uiVars, fnVars, jobVars, hkind, hscript, cellVars, proc, reaped>>

\* *complete_bg.lock() = Err(..)
RemoteStoreErr(h) ==
    /\ hkind[h] = "remote"
    /\ bgPc[h] = "err_complete"
    /\ complete' = [complete EXCEPT ![h] = "Err"]
    /\ bgPc' = [bgPc EXCEPT ![h] = "join"]
    /\ UNCHANGED <<uiVars, fnVars, jobVars, hkind, hscript, stdout, stderr, status, proc, reaped, drainOut, drainErr>>

\* RemoteJoin as it would be if the dropped result of try_join! were recorded:
\* a cancelled drain task is stored as a failure of the handle
RemoteJoinRecordsError(h) ==
    /\ hkind[h] = "remote"
    /\ bgPc[h] = "join"
    /\ \/ drainOut[h].st = "aborted"
       \/ drainErr[h].st = "aborted"
       \/ (drainOut[h].st = "done" /\ drainErr[h].st = "done")
    /\ complete' = [complete EXCEPT ![h] =
            IF drainOut[h].st = "aborted" \/ drainErr[h].st = "aborted" THEN "Err" ELSE @]
    /\ bgPc' = [bgPc EXCEPT ![h] = "finished"]
    /\ UNCHANGED <<uiVars, fnVars, jobVars, hkind, hscript, stdout, stderr, status, proc, reaped, drainOut, drainErr>>

\* tokio::try_join!(stdout_task, stderr_task): returns when both tasks have
\* ended or one of them was cancelled; the result is dropped, block_on returns
\* and the thread ends
RemoteJoin(h) ==
    /\ hkind[h] = "remote"
    /\ bgPc[h] = "join"
    /\ \/ drainOut[h].st = "aborted"
       \/ drainErr[h].st = "aborted"
       \/ (drainOut[h].st = "done" /\ drainErr[h].st = "done")
    /\ bgPc' = [bgPc EXCEPT ![h] = "finished"]
    /\ UNCHANGED <<uiVars, fnVars, jobVars, hkind, hscript, cellVars, proc, reaped, drainOut, drainErr>>

RemoteStep(h) ==
    \/ RemoteConnect(h)
    \/ RemoteSpawn(h)
    \/ StdoutTaskRead(h)
    \/ StdoutTaskExtend(h)
    \/ StderrTaskRead(h)
    \/ StderrTaskExtend(h)
    \/ RemoteWait(h)
    \/ RemoteStoreStatus(h)
    \/ RemoteStoreComplete(h)
    \/ RemoteAbort(h)
    \/ RemoteStoreErr(h)
    \/ RemoteJoin(h)

\* ------------------------------------- the accessors of CommandRunner
\* the mutexes of handle h that its background units hold between two steps:
\* every other lock() is taken and dropped inside one statement that does no I/O
HeldLocks(h) ==
    IF bgPc[h] \in {"some_err_locked", "none_err_locked"} THEN {"stderr"} ELSE {}

\* self.<cell>.lock() of an accessor returns once no background unit holds the mutex
AccessorReturns(h, cell) == cell \notin HeldLocks(h)

\* the steps of the background units of handle h
BgStep(h) == LocalStep(h) \/ RemoteStep(h)

Complete(h) == complete[h] = "OkTrue"
Status(h) == status[h]
Stdout(h) == stdout[h]
Stderr(h) == stderr[h]

\* ------------------------------------------------------- specifications
HandleStep(h) == LocalStep(h) \/ RemoteStep(h) \/ ProcWrite(h) \/ ProcExit(h)

Next ==
    \/ JobRun
    \/ ScpExit
    \/ \E h \in Handles : HandleStep(h)

Spec == Init /\ [][Next]_vars

SpecHandle == InitHandle /\ [][Next]_vars

\* the fairness of the schedulers: every thread, every drain task and every
\* process keeps running while it can take a step
FairHandle ==
    /\ SpecHandle
    /\ WF_vars(JobRun)
    /\ WF_vars(ScpExit)
    /\ \A h \in Handles :
        /\ WF_vars(ProcWrite(h) \/ ProcExit(h))
        /\ WF_vars(LocalStep(h))
        /\ WF_vars(StdoutTaskRead(h) \/ StdoutTaskExtend(h))
        /\ WF_vars(StderrTaskRead(h) \/ StderrTaskExtend(h))
        /\ WF_vars(RemoteConnect(h) \/ RemoteSpawn(h) \/ RemoteWait(h) \/ RemoteStoreStatus(h)
                   \/ RemoteStoreComplete(h) \/ RemoteAbort(h) \/ RemoteStoreErr(h)
                   \/ RemoteJoin(h))

\* --------------------------------------- Task::name and write_script alone
\* task.name()
CallName ==
    /\ ~fnName.some
    /\ fnName' = SomeString(TaskName(fnTask))
    /\ UNCHANGED <<uiVars, jobVars, handleVars, fnTask, fnScript, fnTmp, fnEnv, fnProcEnv, fnLocal, fnRemote>>

\* script.write_script(): File::create(&path), Ok(path)
CallWriteScript ==
    /\ ~fnLocal.some
    /\ fnLocal' = SomeString(WriteScriptPath(fnScript, fnTmp))
    /\ UNCHANGED <<uiVars, jobVars, handleVars, fnTask, fnScript, fnTmp, fnEnv, fnProcEnv, fnName, fnRemote>>

\* script.write_remote_script() behind its write_script and a successful scp
CallWriteRemoteScript ==
    /\ fnScript.dest = "Remote"
    /\ fnLocal.some
    /\ ~fnRemote.some
    /\ fnRemote' = SomeString(RemotePath(fnLocal.v))
    /\ UNCHANGED <<uiVars, jobVars, handleVars, fnTask, fnScript, fnTmp, fnEnv, fnProcEnv, fnName, fnLocal>>

\* the arguments of the calls: any task for name(), or any script and temp
\* directory for write_script
\* try_into_runner, Destination::Local: the Command is made and spawned, the
\* child starts with the environment the Command gives it
CallSpawnLocal ==
    /\ fnScript.dest = "Local"
    /\ ~fnProcEnv.some
    /\ fnProcEnv' = SomeEnv(SpawnEnv(TryIntoRunnerCommand(fnScript), fnEnv))
    /\ UNCHANGED <<uiVars, jobVars, handleVars, fnTask, fnScript, fnTmp, fnEnv, fnName, fnLocal, fnRemote>>

InitFn ==
    /\ InitRun({<<>>})
    /\ \/ /\ fnTask \in NameTasks
          /\ fnScript = DefaultScript(<<>>)
          /\ fnTmp = Tmp
          /\ fnEnv = {}
       \/ /\ fnTask = [kind |-> "Serial", scripts |-> <<>>]
          /\ fnScript \in NamedScripts
          /\ fnTmp \in TempDirs
          /\ fnEnv \in LauncherEnvs
    /\ fnProcEnv = NoEnv
    /\ fnName = NoString
    /\ fnLocal = NoString
    /\ fnRemote = NoString
    /\ StateDefault
    /\ overflow_checks = FALSE

NextFn == CallName \/ CallWriteScript \/ CallWriteRemoteScript \/ CallSpawnLocal

SpecFn == InitFn /\ [][NextFn]_vars

\* ------------------------------------- the dashboard (draw.rs, main.rs)
Max(a, b) == IF a > b THEN a ELSE b

\* usize::saturating_sub
SaturatingSub(a, b) == IF a >= b THEN a - b ELSE 0

\* a - b of two usize where overflow wraps: (a - b) mod (usize::MAX + 1)
WrappingSub(a, b) == IF a >= b THEN a - b ELSE UsizeMax - (b - a - 1)

\* State::up_key: selected().map(|x| (x.saturating_sub(1)).max(0))
UpKey(x) == Max(SaturatingSub(x, 1), 0)

\* State::down_key(max): selected().map(|x| (x + 1).min(max))
DownKey(x, max) == Min(x + 1, max)

\* state.draw after a key: draw_task indexes runner.threads with the
\* selection and panics when it is out of range, draw_job indexes nothing
Draw(sel, mode) ==
    IF mode = "Task" /\ sel >= Len(threads) THEN "panicked" ELSE "running"

\* the loop of main reads a key event: Job::run has returned, the loop runs
KeyRead ==
    /\ runPc = "returned"
    /\ uiPc = "running"
    /\ keys < MaxKeys
    /\ keys' = keys + 1

\* KeyCode::Up => state.up_key(), then the draw of the iteration
KeyUp ==
    /\ KeyRead
    /\ selected' = UpKey(selected)
    /\ uiPc' = Draw(selected', draw_mode)
    /\ UNCHANGED <<jobVars, handleVars, fnVars, draw_mode, overflow_checks>>

\* KeyCode::Down => state.down_key(runner.job.tasks.len() - 1): for a job
\* without tasks the subtraction overflows, which panics or wraps with the build
KeyDown ==
    /\ KeyRead
    /\ IF Len(job) = 0 /\ overflow_checks
       THEN /\ uiPc' = "panicked"
            /\ UNCHANGED selected
       ELSE /\ selected' = DownKey(selected, WrappingSub(Len(job), 1))
            /\ uiPc' = Draw(selected', draw_mode)
    /\ UNCHANGED <<jobVars, handleVars, fnVars, draw_mode, overflow_checks>>

\* KeyCode::Enter => state.enter_key(), then draw_task
KeyEnter ==
    /\ KeyRead
    /\ draw_mode' = "Task"
    /\ uiPc' = Draw(selected, draw_mode')
    /\ UNCHANGED <<jobVars, handleVars, fnVars, selected, overflow_checks>>

\* KeyCode::Esc | KeyCode::Backspace => state.back_key(), then draw_job
KeyBack ==
    /\ KeyRead
    /\ draw_mode' = "Job"
    /\ uiPc' = Draw(selected, draw_mode')
    /\ UNCHANGED <<jobVars, handleVars, fnVars, selected, overflow_checks>>

\* jobs as far as the dashboard reads them: any number of tasks, here
\* chains without scripts
UiJobs == {[i \in 1..k |-> [kind |-> "Serial", scripts |-> <<>>]] : k \in 0..MaxTasks}

InitUi ==
    /\ InitRun(UiJobs)
    /\ NoCalls
    /\ StateDefault
    /\ overflow_checks \in BOOLEAN

NextUi == IntoRunnersDone \/ RunReturn \/ KeyUp \/ KeyDown \/ KeyEnter \/ KeyBack

SpecUi == InitUi /\ [][NextUi]_vars

\* ------------------------------------------------------------------ claims
Started(h) == hkind[h] # "none"
Terminal(h) == complete[h] # "OkFalse"
Executing(h) == proc[h].st = "running"
TaskOf(h) == hscript[h][1]
StepOf(h) == hscript[h][2]

\* C1: in a Serial task, step k+1 is started only after the handle of step k
\* is terminal, so at most one step of a chain executes at a time.
C1_SerialStepsSequential ==
    \A h1, h2 \in Handles :
        (/\ Started(h1) /\ Started(h2)
         /\ TaskOf(h1) = TaskOf(h2)
         /\ job[TaskOf(h1)].kind = "Serial"
         /\ StepOf(h2) = StepOf(h1) + 1)
        => (Terminal(h1) /\ ~(Executing(h1) /\ Executing(h2)))

\* C2: whenever complete() is true on a local handle, stdout() is everything
\* the process wrote to its stdout.
C2_CompleteImpliesFullStdout ==
    \A h \in Handles :
        (hkind[h] = "local" /\ Complete(h)) => Stdout(h) = StreamPrefix(ScriptOf(h).outLen)

\* C3: a launch error of one script never ends Job::run: when Job::run is
\* over it has returned, with one handle-set per task, each as long as the
\* task's script list.
C3_LaunchErrorsConfined ==
    (runPc \in {"returned", "panicked"}) =>
        /\ runPc = "returned"
        /\ Len(threads) = Len(job)
        /\ \A t \in 1..Len(threads) : Len(threads[t].runners) = Len(job[t].scripts)

\* C4: when scp reports non-success, Job::run goes on with a new handle for
\* that script whose completion cell holds the failure.
C4_UploadFailureOnHandle ==
    [][(runPc = "scp_wait" /\ scp = "failure" /\ scp' = "none")
        => (/\ runPc' = "resolve"
            /\ nextHandle' = nextHandle + 1
            /\ complete'[nextHandle'] = "Err")]_vars

\* C5: a local spawn failure never is a panic of the calling thread, and a
\* remote thread that stopped on a connect or spawn failure has left a
\* failure in its completion cell.
C5_SpawnConnectFailureRecorded ==
    /\ panic # "Failed to spawn command"
    /\ \A h \in Handles : bgPc[h] = "panicked" => complete[h] = "Err"

\* C6: under fair scheduling every started handle eventually is terminal.
C6_EveryHandleTerminates ==
    \A h \in Handles : [](Started(h) => <>Terminal(h))

\* C7: once complete() has returned true for a handle it never returns false.
C7_CompletionMonotonic ==
    [][\A h \in Handles : Complete(h) => Complete(h)']_vars

\* C7 witness: a completed local handle whose polling loop has gone round
\* again and is about to store into the completion cell once more
C7_Witness ==
    \E h \in Handles : hkind[h] = "local" /\ Complete(h) /\ bgPc[h] = "some_complete"

\* C8: once a handle is terminal, no step changes its four cells.
C8_TerminalIsFinal ==
    [][\A h \in Handles :
        Terminal(h) => /\ complete'[h] = complete[h]
                       /\ status'[h] = status[h]
                       /\ stdout'[h] = stdout[h]
                       /\ stderr'[h] = stderr[h]]_vars

\* C9: while Job::run is between call and return, the calling thread always
\* has a step to take: it never waits for a subprocess.
C9_RunNeverWaitsForChild ==
    (runPc \in {"resolve", "scp_wait"}) => ENABLED JobRun

\* C10: the launch of a task never waits for a handle: whatever the state of
\* the handles made so far, Job::run can take its next step unless it is
\* inside Command::status() of a running scp.
C10_LaunchNeverWaitsForHandle ==
    (runPc \in {"resolve", "scp_wait"} /\ scp # "running") => ENABLED JobRun

\* C10 witness: a handle of a later task is complete while the process of an
\* earlier task is still running
C10_Witness ==
    \E h1, h2 \in Handles :
        /\ Started(h1) /\ Started(h2)
        /\ TaskOf(h1) < TaskOf(h2)
        /\ Executing(h1) /\ ~Terminal(h1)
        /\ Complete(h2)

\* the stream bytes a buffer holds, whatever else it holds
RECURSIVE DataBytes(_)
DataBytes(buf) ==
    IF buf = <<>> THEN 0
    ELSE (IF buf[1][1] = "z" THEN 0 ELSE buf[1][2]) + DataBytes(Tail(buf))

\* C11: whenever complete() is true on a remote handle, every byte the remote
\* process wrote to stdout and to stderr is in the handle's buffers.
C11_RemoteOutputBeforeComplete ==
    \A h \in Handles :
        (hkind[h] = "remote" /\ Complete(h)) =>
            /\ DataBytes(Stdout(h)) = ScriptOf(h).outLen
            /\ DataBytes(Stderr(h)) = ScriptOf(h).errLen

\* C12: whenever complete() is true on a local handle, stderr() is everything
\* the process wrote to its stderr.
C12_CompleteImpliesFullStderr ==
    \A h \in Handles :
        (hkind[h] = "local" /\ Complete(h)) => Stderr(h) = StreamPrefix(ScriptOf(h).errLen)

\* C13: no accessor ever waits for child I/O: whenever a background unit of a
\* handle holds one of its mutexes, that unit can take its next step at once
\* (it is not blocked in a read, a wait or a connect), so the mutex is given
\* back and complete(), status(), stdout() and stderr() return.
C13_NoLockHeldWhileBlocked ==
    \A h \in Handles :
        (\E cell \in {"stdout", "stderr", "status", "complete"} : ~AccessorReturns(h, cell))
            => ENABLED BgStep(h)

\* C13 witness: the polling thread holds the stderr mutex inside its read
\* while the child is alive and has nothing queued on stderr
C13_Witness ==
    \E h \in Handles :
        /\ HeldLocks(h) = {"stderr"}
        /\ proc[h].st = "running"
        /\ proc[h].pipeErr = 0
        /\ proc[h].errLeft > 0

\* what a reader gets from the four accessors
Observation(h) == <<Complete(h), Status(h), Stdout(h), Stderr(h)>>

\* where a handle is in Pending -> Running -> Completed | Failed
Lifecycle(h) ==
    CASE complete[h] = "OkTrue" -> "Completed"
      [] complete[h] = "Err" \/ bgPc[h] = "panicked" -> "Failed"
      [] hkind[h] = "remote" /\ bgPc[h] \in {"connect", "spawn"} -> "Pending"
      [] OTHER -> "Running"

\* C14: the accessors tell Failed, Running and Pending apart: two handles in
\* two different of these states never give the same observation.
C14_LifecycleObservable ==
    \A h1, h2 \in Handles :
        (/\ Started(h1) /\ Started(h2)
         /\ Lifecycle(h1) \in {"Failed", "Running", "Pending"}
         /\ Lifecycle(h2) \in {"Failed", "Running", "Pending"}
         /\ Lifecycle(h1) # Lifecycle(h2))
        => Observation(h1) # Observation(h2)

\* ExitStatus::success()
Success(st) == st.some /\ st.code = 0

\* C15: the exit of a local script is data: once complete() is true, status()
\* is Some of the code the script exited with (success() iff the code is 0),
\* and once the exit branch of the loop has run the handle is Completed,
\* never Failed, whatever the code.
C15_ExitStatusIsData ==
    \A h \in Handles :
        hkind[h] = "local" =>
            /\ Complete(h) =>
                /\ Status(h) = SomeStatus(ScriptOf(h).code)
                /\ Success(Status(h)) <=> (ScriptOf(h).code = 0)
            /\ (Status(h).some /\ bgPc[h] = "try_wait") => complete[h] = "OkTrue"

\* C15 witness: a local handle is complete with a non-zero exit code
C15_Witness ==
    \E h \in Handles :
        /\ hkind[h] = "local"
        /\ Complete(h)
        /\ Status(h).some /\ Status(h).code # 0 /\ ~Success(Status(h))

\* C16: the JobRunner that Job::run returns mirrors the Job: one JobThread per
\* task, in task order, entry t holding task t and one runner per script of
\* task t in script order (none for an empty Serial); a job without tasks
\* returns an empty threads list and cannot panic.
C16_RunnerMirrorsJob ==
    /\ runPc = "returned" =>
        /\ Len(threads) = Len(job)
        /\ \A t \in 1..Len(threads) :
            /\ threads[t].task = t
            /\ Len(threads[t].runners) = Len(job[t].scripts)
            /\ job[t].kind = "Script" => Len(threads[t].runners) = 1
            /\ \A i \in 1..Len(threads[t].runners) :
                /\ Started(threads[t].runners[i])
                /\ TaskOf(threads[t].runners[i]) = t
                /\ StepOf(threads[t].runners[i]) = i
    /\ job = <<>> => (runPc # "panicked" /\ (runPc = "returned" => threads = <<>>))

\* C16 witness: Job::run has returned for a job of an empty Serial followed by
\* a Serial of two scripts
C16_Witness ==
    /\ runPc = "returned"
    /\ Len(job) = 2
    /\ job[1].kind = "Serial" /\ job[1].scripts = <<>>
    /\ job[2].kind = "Serial" /\ Len(job[2].scripts) = 2
    /\ threads[1].runners = <<>>
    /\ Len(threads[2].runners) = 2

\* the bytes of a are the first bytes of b (both in run-length form, adjacent
\* runs of one kind merged as ExtendFromSlice leaves them)
RECURSIVE PrefixB(_, _)
PrefixB(a, b) ==
    IF a = <<>> THEN TRUE
    ELSE IF b = <<>> \/ a[1][1] # b[1][1] THEN FALSE
    ELSE IF a[1][2] = b[1][2] THEN PrefixB(Tail(a), Tail(b))
    ELSE a[1][2] < b[1][2] /\ Tail(a) = <<>>

\* C17: the stdout and stderr buffers of every handle are append-only: every
\* step of any unit leaves what stdout() and stderr() returned before as a
\* prefix of what they return after.
C17_BuffersAppendOnly ==
    [][\A h \in Handles :
          /\ PrefixB(Stdout(h), Stdout(h)')
          /\ PrefixB(Stderr(h), Stderr(h)')]_vars

\* C17 witness: a local stdout buffer that took more than two reads to fill
C17_Witness ==
    \E h \in Handles : hkind[h] = "local" /\ LenB(Stdout(h)) > 2 * ReadSize

\* C18: a Serial chain does not short-circuit: once a step of a Serial task
\* has completed with a non-zero exit status, Job::run still launches the
\* step it is at, and whenever into_runners is through with the task every
\* later step of the chain has a handle of its own in the task's handle-set.
C18_SerialNoShortCircuit ==
    \A h \in Handles :
        (/\ Started(h)
         /\ job[TaskOf(h)].kind = "Serial"
         /\ Complete(h) /\ ~Success(Status(h)))
        => /\ (Resolving /\ curTask = TaskOf(h))
                => ENABLED (TryIntoRunnerLocal \/ WriteRemoteScript)
           /\ (runPc = "returned" \/ (runPc \in {"resolve", "scp_wait"} /\ curTask > TaskOf(h)))
                => \A j \in (StepOf(h) + 1)..Len(job[TaskOf(h)].scripts) :
                     /\ j <= Len(threads[TaskOf(h)].runners)
                     /\ threads[TaskOf(h)].runners[j] # h
                     /\ Started(threads[TaskOf(h)].runners[j])
                     /\ hscript[threads[TaskOf(h)].runners[j]] = <<TaskOf(h), j>>

\* C18 witness: Job::run has returned, the first step of a Serial chain of two
\* has completed with a non-zero exit status and the second step has its handle
C18_Witness ==
    \E h1, h2 \in Handles :
        /\ runPc = "returned"
        /\ Started(h1) /\ Started(h2)
        /\ job[TaskOf(h1)].kind = "Serial"
        /\ TaskOf(h1) = TaskOf(h2)
        /\ StepOf(h1) = 1 /\ StepOf(h2) = 2
        /\ Complete(h1) /\ Status(h1).some /\ Status(h1).code # 0
        /\ threads[TaskOf(h1)].runners = <<h1, h2>>

\* where the i-th name starts in the joined string, counted from 0
RECURSIVE OffsetOf(_, _)
OffsetOf(ns, i) ==
    IF i = 1 THEN 0 ELSE OffsetOf(ns, i - 1) + Len(ns[i - 1]) + Len(Sep)

\* C19: Task::name returns the script's name for a Script task; for a Serial
\* task the result is exactly the names in declaration order with " => "
\* between consecutive names: it starts with the first name, ends with the
\* last, a chain of one gives that name and an empty chain the empty string.
C19_TaskNameJoins ==
    fnName.some =>
        LET out == fnName.v
            ns == [i \in 1..Len(fnTask.scripts) |-> fnTask.scripts[i].name]
            n == Len(ns)
        IN IF fnTask.kind = "Script" THEN out = ns[1]
           ELSE /\ n = 0 => out = <<>>
                /\ n = 1 => out = ns[1]
                /\ n > 0 => Len(out) = OffsetOf(ns, n) + Len(ns[n])
                /\ \A i \in 1..n :
                     SubSeq(out, OffsetOf(ns, i) + 1, OffsetOf(ns, i) + Len(ns[i])) = ns[i]
                /\ \A i \in 1..(n - 1) :
                     SubSeq(out, OffsetOf(ns, i) + Len(ns[i]) + 1, OffsetOf(ns, i + 1))
                        = <<" ", "=", ">", " ">>

\* C19 witness: name() has returned for a chain of three scripts with three
\* different names
C19_Witness ==
    /\ fnName.some
    /\ fnTask.kind = "Serial"
    /\ Len(fnTask.scripts) = 3
    /\ fnTask.scripts[1].name # fnTask.scripts[2].name
    /\ fnTask.scripts[2].name # fnTask.scripts[3].name
    /\ fnTask.scripts[1].name # <<>>
    /\ fnTask.scripts[3].name # <<>>

\* C20: for every script name n, the file write_script creates is
\* checkmate_<n>.sh in the temp directory, and the remote path that
\* write_remote_script returns is /tmp/ followed by that file name.
C20_ScriptFileName ==
    /\ fnLocal.some =>
        /\ FileName(fnLocal.v) = Checkmate \o fnScript.name \o <<".", "s", "h">>
        /\ fnLocal.v = Push(fnTmp, FileName(fnLocal.v))
    /\ fnRemote.some =>
        fnRemote.v = <<"/", "t", "m", "p", "/">> \o FileName(fnLocal.v)

\* C21: the environment policy of a local Script decides the environment of
\* the process launched for it: cleared for Environment::None, the
\* launcher's for Environment::Current.
C21_EnvironmentPolicyApplied ==
    (fnProcEnv.some /\ fnScript.dest = "Local") =>
        /\ fnScript.environment = "None" => fnProcEnv.v = {}
        /\ fnScript.environment = "Current" => fnProcEnv.v = fnEnv

\* C22: in every reachable state of a local or remote handle, completion
\* Ok(true) implies that the status cell is Some, and a status cell that is
\* Some never goes back to None: who sees complete() == true and then calls
\* status() never gets None.
C22_CompleteImpliesStatus ==
    /\ [](\A h \in Handles : Complete(h) => Status(h).some)
    /\ [][\A h \in Handles : Status(h).some => Status(h)'.some]_vars

\* C22 witness: a remote handle has published completion
C22_Witness ==
    \E h \in Handles : hkind[h] = "remote" /\ Complete(h) /\ Status(h).some

\* the buffer is the first n bytes of a stream of len bytes, for some n
IsStreamPrefix(buf, len) == \E n \in 0..len : buf = StreamPrefix(n)

\* C23: the buffers hold only bytes the process produced: in every reachable
\* state of a local or remote handle, stdout() is a prefix of what the
\* process wrote to stdout and stderr() a prefix of what it wrote to stderr,
\* with no padding or other bytes.
C23_BuffersHoldOnlyStreamBytes ==
    \A h \in Handles :
        Started(h) =>
            /\ IsStreamPrefix(Stdout(h), ScriptOf(h).outLen)
            /\ IsStreamPrefix(Stderr(h), ScriptOf(h).errLen)

\* C24: the background unit of a local handle terminates: once completion
\* or a try_wait error is in the completion cell, the polling loop of
\* from_command eventually has no step left to take.
C24_LocalLoopStops ==
    \A h \in Handles :
        (hkind[h] = "local" /\ Terminal(h)) ~> ~ENABLED LocalStep(h)

\* C25: after any sequence of Up, Down, Enter and Back keys from the default
\* State, the selected row is a valid task index of the running job,
\* 0 <= selected <= number of tasks - 1, for every job, and the event loop
\* has not panicked on an index out of range.
C25_SelectionInRange ==
    runPc = "returned" =>
        /\ uiPc = "running"
        /\ 0 <= selected
        /\ selected <= Len(job) - 1

====
